---------------------------- MODULE Spec2Model ----------------------------
(***************************************************************************)
(* Model of src/src/App.jsx: the data utilities (parseListString,          *)
(* processData, quantile), the aggregation function buildNetworkData, the  *)
(* cluster ranking of TopClustersModal, and the App / QuantileExplorer     *)
(* state with its effects and handlers.                                    *)
(*                                                                         *)
(* Number representation.  JavaScript numbers are modelled by exact        *)
(* arithmetic:                                                             *)
(*   - an RS value and a minRS threshold are integers in hundredths        *)
(*     (0.36 is 36, -0.8 is -80);                                          *)
(*   - the quantile parameter is an integer in hundredths (0.50 is 50);    *)
(*   - a citation count is an integer; a citationAtQuantile is kept in     *)
(*     hundredths (quantile of integers at a tau in hundredths is an exact *)
(*     multiple of 1/100);                                                 *)
(*   - a mean (avgBeta, avgRS, avgCitations, currentEffect) is a reduced   *)
(*     fraction <<num, den>> with den > 0.                                 *)
(* A code string is an integer whose order is the string order of the      *)
(* code: see Code.                                                         *)
(***************************************************************************)
EXTENDS Integers, Sequences, FiniteSets, TLC

VARIABLES
    processedData,   \* App state: the rows returned by processData
    filters,         \* App state: the filter object
    citationWindow,  \* App state
    quantileValue,   \* App state: committed tau, in hundredths
    networkData,     \* App state: last result of buildNetworkData
    currentEffect,   \* App state: network-level effect, a fraction
    localQuantile,   \* QuantileExplorer state: slider value, in hundredths
    timer,           \* QuantileExplorer: the pending debounce timers, each the value it will commit
    isLoading,       \* App state: true until loadData has finished
    nEvents,         \* number of user events so far (bounded)
    fnIn,            \* function-level check: the drawn input
    fnOut            \* function-level check: the result, or NotRun

vars == <<processedData, filters, citationWindow, quantileValue, networkData,
          currentEffect, localQuantile, timer, isLoading, nEvents, fnIn, fnOut>>

appVars == <<processedData, filters, citationWindow, quantileValue, networkData,
             currentEffect, localQuantile, timer, isLoading, nEvents>>

\* fnOut before the function under check has been applied.
NotRun == [done |-> FALSE]
\* No debounce timer is pending.
NoTimer == <<>>

-----------------------------------------------------------------------------
(* Sequence helpers standing for Array.prototype methods.                   *)

RECURSIVE SeqSum(_)
\* arr.reduce((a, b) => a + b, 0)
SeqSum(s) == IF s = <<>> THEN 0 ELSE Head(s) + SeqSum(Tail(s))

Range(s) == {s[i] : i \in 1..Len(s)}

Take(s, n) == SubSeq(s, 1, IF n < Len(s) THEN n ELSE Len(s))

Abs(x) == IF x < 0 THEN -x ELSE x

RECURSIVE InsertAsc(_, _)
\* Insert x after every element <= x: the step of a stable ascending sort.
InsertAsc(sorted, x) ==
    IF sorted = <<>> THEN <<x>>
    ELSE IF Head(sorted) <= x THEN <<Head(sorted)>> \o InsertAsc(Tail(sorted), x)
         ELSE <<x>> \o sorted

RECURSIVE SortAsc(_)
\* [...arr].sort((a, b) => a - b) on numbers, and arr.sort() on code strings
\* (codes are integers in string order).
SortAsc(s) ==
    IF s = <<>> THEN <<>>
    ELSE InsertAsc(SortAsc(SubSeq(s, 1, Len(s) - 1)), s[Len(s)])

RECURSIVE Dedup(_)
\* [...new Set(arr)]: first occurrences, in order.
Dedup(s) ==
    IF s = <<>> THEN <<>>
    ELSE LET init == Dedup(SubSeq(s, 1, Len(s) - 1))
         IN IF s[Len(s)] \in Range(init) THEN init ELSE Append(init, s[Len(s)])

RECURSIVE Flat(_)
\* arr.flat() on an array of arrays.
Flat(s) == IF s = <<>> THEN <<>> ELSE Head(s) \o Flat(Tail(s))

-----------------------------------------------------------------------------
(* Fractions.                                                               *)

RECURSIVE GCD(_, _)
GCD(a, b) == IF b = 0 THEN a ELSE GCD(b, a % b)

\* The number n/d (d > 0) as a reduced fraction.
Frac(n, d) ==
    LET g == GCD(Abs(n), d)
    IN <<n \div g, d \div g>>

FracLeq(a, b) == a[1] * b[2] <= b[1] * a[2]
FracZero == <<0, 1>>

-----------------------------------------------------------------------------
(* Codes.  A JEL code is a letter, a digit and (unless it is in the short   *)
(* form) a second digit.  Code(l, d, e) is letter number l, digit d, second *)
(* digit e; ShortCode(l, d) is the two-character form.  The integers are in *)
(* the string order of the codes ("C5" < "C50" < "C51" < "C6" < "D1").      *)

ShortCode(l, d) == l * 1000 + d * 100
Code(l, d, e) == l * 1000 + d * 100 + 1 + e

\* /^[A-Z]\d$/.test(c)
IsShortCode(c) == c % 100 = 0

\* No expansion: the code is keyed as written.
normalizeNot(c) == c

\* const normalize = (c) => ... ? c + '0' : c      (line 69)
normalize(c) == IF IsShortCode(c) THEN c + 1 ELSE c

G12 == Code(7, 1, 2)
G13 == Code(7, 1, 3)
E44 == Code(5, 4, 4)
C10 == Code(3, 1, 0)
C50 == Code(3, 5, 0)
C5 == ShortCode(3, 5)

-----------------------------------------------------------------------------
(* quantile (lines 102-111).  q is in hundredths; the result is in          *)
(* hundredths: 100 * (sorted[base] + rest * (sorted[base+1] - sorted[base]))*)
(* with rest = (pos100 % 100) / 100.  Indices are 0-based in the source and *)
(* 1-based here.                                                            *)

quantileUpper(arr, q) ==
    LET sorted == SortAsc(arr)
        pos100 == (Len(sorted) - 1) * q
        base   == pos100 \div 100
    IN IF base + 2 <= Len(sorted) THEN 100 * sorted[base + 2] ELSE 100 * sorted[base + 1]

quantile(arr, q) ==
    LET sorted == SortAsc(arr)
        pos100 == (Len(sorted) - 1) * q
        base   == pos100 \div 100
        rest100 == pos100 % 100
    IN IF base + 2 <= Len(sorted)
       THEN 100 * sorted[base + 1] + rest100 * (sorted[base + 2] - sorted[base + 1])
       ELSE 100 * sorted[base + 1]

-----------------------------------------------------------------------------
(* buildNetworkData (lines 130-290).                                        *)
(* A row is a record with the fields of a processed CSV row: theoretical,   *)
(* methodological (sequences of codes), cross (a sequence of sequences of   *)
(* codes), rao_stirling_<category>, publication_year and some               *)
(* citation_<window> columns.  Map objects are sequences in insertion       *)
(* order, which is the order Array.from(map.values()) returns.              *)

Categories == {"theoretical", "methodological", "cross"}

\* const rsCol = `rao_stirling_${component}`
rsCol(component) ==
    CASE component = "theoretical" -> "rao_stirling_theoretical"
      [] component = "methodological" -> "rao_stirling_methodological"
      [] component = "cross" -> "rao_stirling_cross"

\* filters[`minRS_${component}`]
minRSField(component) ==
    CASE component = "theoretical" -> "minRS_theoretical"
      [] component = "methodological" -> "minRS_methodological"
      [] component = "cross" -> "minRS_cross"

\* node[`rs_${component}`] and node[`count_${component}`]
rsField(component) ==
    CASE component = "theoretical" -> "rs_theoretical"
      [] component = "methodological" -> "rs_methodological"
      [] component = "cross" -> "rs_cross"

countField(component) ==
    CASE component = "theoretical" -> "count_theoretical"
      [] component = "methodological" -> "count_methodological"
      [] component = "cross" -> "count_cross"

\* const getCitationColumn = (citationWindow) => `citation_${citationWindow}`
getCitationColumn(window) ==
    CASE window = "1years" -> "citation_1years"
      [] window = "3years" -> "citation_3years"
      [] window = "5years" -> "citation_5years"

\* const calculateBeta = (rsValue) => rsValue
calculateBeta(rsValue) == rsValue

\* row[citationCol] || 0 : a missing column reads undefined
RowCitation(row, citationCol) ==
    IF citationCol \in DOMAIN row THEN row[citationCol] ELSE 0

\* data.filter(d => d.publication_year >= yearRange[0] && d.publication_year <= yearRange[1])
YearFiltered(data, yearRange) ==
    SelectSeq(data, LAMBDA d : d.publication_year >= yearRange[1]
                            /\ d.publication_year <= yearRange[2])

\* The filter predicate of lines 164-169.
Qualifies(d, component, f) ==
    /\ Len(d[component]) > 0
    /\ Abs(d[rsCol(component)]) >= f[minRSField(component)]

RECURSIVE InsertByMagnitude(_, _, _)
\* One step of the stable sort by (a, b) => Math.abs(rsB) - Math.abs(rsA):
\* x goes after every row whose magnitude is >= its own.
InsertByMagnitude(sorted, x, col) ==
    IF sorted = <<>> THEN <<x>>
    ELSE IF Abs(Head(sorted)[col]) >= Abs(x[col])
         THEN <<Head(sorted)>> \o InsertByMagnitude(Tail(sorted), x, col)
         ELSE <<x>> \o sorted

RECURSIVE SortByMagnitude(_, _)
SortByMagnitude(s, col) ==
    IF s = <<>> THEN <<>>
    ELSE InsertByMagnitude(SortByMagnitude(SubSeq(s, 1, Len(s) - 1), col), s[Len(s)], col)

\* The ranking without Math.abs: (a, b) => rsB - rsA  (a signed ranking).
RECURSIVE InsertSigned(_, _, _)
InsertSigned(sorted, x, col) ==
    IF sorted = <<>> THEN <<x>>
    ELSE IF Head(sorted)[col] >= x[col]
         THEN <<Head(sorted)>> \o InsertSigned(Tail(sorted), x, col)
         ELSE <<x>> \o sorted

RECURSIVE SortSigned(_, _)
SortSigned(s, col) ==
    IF s = <<>> THEN <<>>
    ELSE InsertSigned(SortSigned(SubSeq(s, 1, Len(s) - 1), col), s[Len(s)], col)

SelectRowsSigned(filtered, component, f) ==
    Take(SortSigned(SelectSeq(filtered, LAMBDA d : Qualifies(d, component, f)),
                    rsCol(component)),
         f.topN)

SelectRowsNoSlice(filtered, component, f) ==
    SortByMagnitude(SelectSeq(filtered, LAMBDA d : Qualifies(d, component, f)),
                    rsCol(component))

\* const sorted = [...filtered].filter(...).sort(...).slice(0, topN)   (lines 163-176)
SelectRows(filtered, component, f) ==
    Take(SortByMagnitude(SelectSeq(filtered, LAMBDA d : Qualifies(d, component, f)),
                         rsCol(component)),
         f.topN)

-----------------------------------------------------------------------------
(* Node and edge accumulation (lines 143-156, 203-265).                     *)

NewNode(code, defaultCategory) ==
    [id |-> code, category |-> defaultCategory,
     totalRS |-> 0, count |-> 0,
     rs_theoretical |-> 0, count_theoretical |-> 0,
     rs_methodological |-> 0, count_methodological |-> 0,
     rs_cross |-> 0, count_cross |-> 0,
     years |-> <<>>, citations |-> <<>>]

HasNode(nodeMap, code) == \E i \in 1..Len(nodeMap) : nodeMap[i].id = code

NodeIndex(nodeMap, code) == CHOOSE i \in 1..Len(nodeMap) : nodeMap[i].id = code

\* getOrCreateNode: the map after the call (lines 143-156)
getOrCreateNode(nodeMap, code, defaultCategory) ==
    IF ~HasNode(nodeMap, code)
    THEN Append(nodeMap, NewNode(code, defaultCategory))
    ELSE nodeMap

\* Set.prototype.add on the insertion-ordered year set
SetAdd(s, x) == IF x \in Range(s) THEN s ELSE Append(s, x)

\* The accumulation without the per-category count.
AccumulateNoCategoryCount(node, component, rs, year, citation) ==
    [node EXCEPT !.totalRS = @ + rs,
                 !.count = @ + 1,
                 ![rsField(component)] = @ + rs,
                 !.years = IF year \in Range(@) THEN @ ELSE Append(@, year),
                 !.citations = Append(@, citation)]

\* The six statements that follow each getOrCreateNode call
\* (lines 209-214, 217-222, 241-246); component names the per-category fields.
Accumulate(node, component, rs, year, citation) ==
    [node EXCEPT !.totalRS = @ + rs,
                 !.count = @ + 1,
                 ![rsField(component)] = @ + rs,
                 ![countField(component)] = @ + 1,
                 !.years = SetAdd(@, year),
                 !.citations = Append(@, citation)]

TouchNode(nodeMap, code, defaultCategory, component, rs, year, citation) ==
    LET m == getOrCreateNode(nodeMap, code, defaultCategory)
        i == NodeIndex(m, code)
    IN [m EXCEPT ![i] = Accumulate(m[i], component, rs, year, citation)]

RECURSIVE TouchNodes(_, _, _, _, _, _)
\* touches: a sequence of <<code, defaultCategory>>, in the order of the calls.
TouchNodes(nodeMap, touches, component, rs, year, citation) ==
    IF touches = <<>> THEN nodeMap
    ELSE TouchNodes(TouchNode(nodeMap, Head(touches)[1], Head(touches)[2],
                              component, rs, year, citation),
                    Tail(touches), component, rs, year, citation)

\* [a, b].sort().join('--') : the sorted pair stands for the joined string.
EdgeKeyUnsorted(a, b) == <<a, b>>

EdgeKey(a, b) == SortAsc(<<a, b>>)

HasEdge(edgeMap, key) == \E i \in 1..Len(edgeMap) : edgeMap[i].key = key

EdgeIndex(edgeMap, key) == CHOOSE i \in 1..Len(edgeMap) : edgeMap[i].key = key

\* An upsert that accumulates on an existing edge only when the contribution
\* has the edge's own type.
TouchEdgeSameTypeOnly(edgeMap, source, target, type, rs, beta, citation) ==
    LET key == EdgeKey(source, target)
        m == IF ~HasEdge(edgeMap, key)
             THEN Append(edgeMap, [key |-> key, source |-> source, target |-> target,
                                   weight |-> 0, type |-> type, count |-> 0,
                                   betas |-> <<>>, citations |-> <<>>])
             ELSE edgeMap
        i == EdgeIndex(m, key)
    IN IF m[i].type # type THEN m
       ELSE [m EXCEPT ![i] = [@ EXCEPT !.weight = @ + rs,
                                       !.count = @ + 1,
                                       !.betas = Append(@, beta),
                                       !.citations = Append(@, citation)]]

\* Lines 224-235 and 251-262: upsert the edge, then accumulate.
TouchEdge(edgeMap, source, target, type, rs, beta, citation) ==
    LET key == EdgeKey(source, target)
        m == IF ~HasEdge(edgeMap, key)
             THEN Append(edgeMap, [key |-> key, source |-> source, target |-> target,
                                   weight |-> 0, type |-> type, count |-> 0,
                                   betas |-> <<>>, citations |-> <<>>])
             ELSE edgeMap
        i == EdgeIndex(m, key)
    IN [m EXCEPT ![i] = [@ EXCEPT !.weight = @ + rs,
                                  !.count = @ + 1,
                                  !.betas = Append(@, beta),
                                  !.citations = Append(@, citation)]]

RECURSIVE TouchEdges(_, _, _, _, _, _)
\* pairs: a sequence of <<source, target>>, in the order of the loop.
TouchEdges(edgeMap, pairs, type, rs, beta, citation) ==
    IF pairs = <<>> THEN edgeMap
    ELSE TouchEdges(TouchEdge(edgeMap, Head(pairs)[1], Head(pairs)[2],
                              type, rs, beta, citation),
                    Tail(pairs), type, rs, beta, citation)

-----------------------------------------------------------------------------
(* The per-row body of the component loop (lines 178-266).                  *)

\* if (Array.isArray(pair) && pair.length === 2)
ValidPairs(codes) == SelectSeq(codes, LAMBDA pair : Len(pair) = 2)

RECURSIVE CrossTouchesMethOnly(_)
\* Only the methodological side of each pair gets a node.
CrossTouchesMethOnly(pairs) ==
    IF pairs = <<>> THEN <<>>
    ELSE << <<Head(pairs)[1], "methodological">> >> \o CrossTouchesMethOnly(Tail(pairs))

RECURSIVE CrossTouches(_)
\* The getOrCreateNode calls of a cross row, in order: for each valid pair
\* (methCode, 'methodological') then (theoCode, 'theoretical').
CrossTouches(pairs) ==
    IF pairs = <<>> THEN <<>>
    ELSE << <<Head(pairs)[1], "methodological">>, <<Head(pairs)[2], "theoretical">> >>
         \o CrossTouches(Tail(pairs))

\* codes.forEach(code => getOrCreateNode(code, component) ...)
ListTouches(codes, component) == [i \in 1..Len(codes) |-> <<codes[i], component>>]

RECURSIVE AdjacentPairs(_, _)
\* Only neighbouring positions: for (i) with j = i + 1.
AdjacentPairs(codes, i) ==
    IF i + 1 > Len(codes) THEN <<>>
    ELSE << <<codes[i], codes[i + 1]>> >> \o AdjacentPairs(codes, i + 1)

AdjacentOnly(codes) == AdjacentPairs(codes, 1)

RECURSIVE PairsFrom(_, _, _)
PairsFrom(codes, i, j) ==
    IF i > Len(codes) THEN <<>>
    ELSE IF j > Len(codes) THEN PairsFrom(codes, i + 1, i + 2)
    ELSE << <<codes[i], codes[j]>> >> \o PairsFrom(codes, i, j + 1)

\* for (let i = 0; ...) for (let j = i + 1; ...) : the (codes[i], codes[j]) in loop order
AllPairs(codes) == PairsFrom(codes, 1, 2)

\* The (source, target) pairs one selected row contributes under a component.
RowEdgePairs(row, component) ==
    IF component = "cross" THEN ValidPairs(row[component]) ELSE AllPairs(row[component])

\* The (code, defaultCategory) node updates one selected row makes.
RowTouches(row, component) ==
    IF component = "cross" THEN CrossTouches(ValidPairs(row[component]))
    ELSE ListTouches(row[component], component)

\* flatCodes (lines 187-189); the id, flatCodes.join('+'), is determined by it.
flatCodes(codes, component) ==
    IF component = "cross" THEN SortAsc(Dedup(Flat(codes))) ELSE SortAsc(codes)

\* Lines 185-198.
RowCombinations(row, component, citationCol) ==
    LET codes == row[component]
    IN IF Len(codes) >= 2
       THEN << [id |-> flatCodes(codes, component),
                codes |-> flatCodes(codes, component),
                type |-> component,
                citation |-> RowCitation(row, citationCol),
                year |-> row.publication_year] >>
       ELSE <<>>

\* acc is [nodeMap, edgeMap, combinations]; the body of sorted.forEach(row => ...)
ProcessRow(acc, row, component, citationCol) ==
    LET rs == row[rsCol(component)]
        year == row.publication_year
        citation == RowCitation(row, citationCol)
        beta == calculateBeta(rs)
    IN [nodeMap |-> TouchNodes(acc.nodeMap, RowTouches(row, component),
                               component, rs, year, citation),
        edgeMap |-> TouchEdges(acc.edgeMap, RowEdgePairs(row, component),
                               component, rs, beta, citation),
        combinations |-> acc.combinations \o RowCombinations(row, component, citationCol)]

RECURSIVE ProcessRows(_, _, _, _)
ProcessRows(acc, rows, component, citationCol) ==
    IF rows = <<>> THEN acc
    ELSE ProcessRows(ProcessRow(acc, Head(rows), component, citationCol),
                     Tail(rows), component, citationCol)

RECURSIVE ProcessComponents(_, _, _, _, _)
\* componentTypes.forEach(component => ...)   (lines 158-267)
ProcessComponents(acc, componentTypes, filtered, f, citationCol) ==
    IF componentTypes = <<>> THEN acc
    ELSE ProcessComponents(
             ProcessRows(acc, SelectRows(filtered, Head(componentTypes), f),
                         Head(componentTypes), citationCol),
             Tail(componentTypes), filtered, f, citationCol)

\* Lines 269-277.
FinishNode(n, quantileVal) ==
    [id |-> n.id, category |-> n.category,
     totalRS |-> n.totalRS, count |-> n.count,
     rs_theoretical |-> n.rs_theoretical, count_theoretical |-> n.count_theoretical,
     rs_methodological |-> n.rs_methodological,
     count_methodological |-> n.count_methodological,
     rs_cross |-> n.rs_cross, count_cross |-> n.count_cross,
     years |-> n.years, citations |-> n.citations,
     avgRS |-> Frac(n.totalRS, n.count),
     avgRS_theoretical |->
         IF n.count_theoretical # 0 THEN Frac(n.rs_theoretical, n.count_theoretical)
         ELSE FracZero,
     avgRS_methodological |->
         IF n.count_methodological # 0
         THEN Frac(n.rs_methodological, n.count_methodological) ELSE FracZero,
     avgRS_cross |->
         IF n.count_cross # 0 THEN Frac(n.rs_cross, n.count_cross) ELSE FracZero,
     citationAtQuantile |->
         IF Len(n.citations) > 0 THEN quantile(n.citations, quantileVal) ELSE 0]

\* Lines 279-287.  The Map key is not part of the value.
FinishEdge(e, quantileVal) ==
    [source |-> e.source, target |-> e.target,
     weight |-> e.weight, type |-> e.type, count |-> e.count,
     betas |-> e.betas, citations |-> e.citations,
     avgBeta |-> IF Len(e.betas) > 0 THEN Frac(SeqSum(e.betas), Len(e.betas))
                 ELSE FracZero,
     avgCitations |-> IF Len(e.citations) > 0
                      THEN Frac(SeqSum(e.citations), Len(e.citations)) ELSE FracZero,
     citationAtQuantile |->
         IF Len(e.citations) > 0 THEN quantile(e.citations, quantileVal) ELSE 0]

EmptyAcc == [nodeMap |-> <<>>, edgeMap |-> <<>>, combinations |-> <<>>]

\* The accumulators after the component loop (lines 134-267).
BuildMaps(data, f, window) ==
    ProcessComponents(EmptyAcc, f.componentTypes, YearFiltered(data, f.yearRange),
                      f, getCitationColumn(window))

\* buildNetworkData (lines 130-290): { nodes, edges, combinations }
buildNetworkData(data, f, window, quantileVal) ==
    LET acc == BuildMaps(data, f, window)
    IN [nodes |-> [i \in 1..Len(acc.nodeMap) |-> FinishNode(acc.nodeMap[i], quantileVal)],
        edges |-> [i \in 1..Len(acc.edgeMap) |-> FinishEdge(acc.edgeMap[i], quantileVal)],
        combinations |-> acc.combinations]

-----------------------------------------------------------------------------
(* The pipeline effect of App (lines 944-966).                              *)

FracAdd(a, b) == Frac(a[1] * b[2] + b[1] * a[2], a[2] * b[2])

\* const weight = e.citationAtQuantile || 1   (in hundredths, like citationAtQuantile)
EdgeWeightNoFloor(e) == e.citationAtQuantile

EdgeWeight(e) == IF e.citationAtQuantile # 0 THEN e.citationAtQuantile ELSE 100

RECURSIVE TotalWeightedBeta(_)
\* totalWeightedBeta, in hundredths
TotalWeightedBeta(edges) ==
    IF edges = <<>> THEN FracZero
    ELSE FracAdd(Frac(Head(edges).avgBeta[1] * EdgeWeight(Head(edges)),
                      Head(edges).avgBeta[2]),
                 TotalWeightedBeta(Tail(edges)))

RECURSIVE TotalWeight(_)
\* totalWeight, in hundredths
TotalWeight(edges) ==
    IF edges = <<>> THEN 0 ELSE EdgeWeight(Head(edges)) + TotalWeight(Tail(edges))

\* The sum alone: totalWeightedBeta without the division by totalWeight.
NetworkEffectUndivided(edges) ==
    LET twb == TotalWeightedBeta(edges) IN Frac(twb[1], twb[2] * 100)

\* const avgBeta = totalWeight > 0 ? totalWeightedBeta / totalWeight : 0   (line 962)
NetworkEffect(edges) ==
    LET twb == TotalWeightedBeta(edges)
        tw  == TotalWeight(edges)
    IN IF tw > 0 THEN Frac(twb[1], twb[2] * tw) ELSE FracZero

\* Line 950 has no else branch: a run without edges leaves currentEffect as it was.
EffectWhenNoEdges(prevEffect) == prevEffect

\* buildNetworkData reads its argument only: data.filter (line 134) builds a new
\* array, and lines 163 and 188-189 spread into a copy before sorting.
\* DataAfterBuild is the content of the caller's array after the call.
SortedCodesInPlace(d, filtered, f) ==
    [c \in DOMAIN d |->
        IF /\ c \in {"theoretical", "methodological"}
           /\ c \in Range(f.componentTypes)
           /\ d \in Range(SelectRows(filtered, c, f))
           /\ Len(d[c]) >= 2
        THEN SortAsc(d[c]) ELSE d[c]]

\* What  codes.sort()  at line 189 would leave behind.
DataSortedInPlace(data, f) ==
    [i \in 1..Len(data) |->
        SortedCodesInPlace(data[i], YearFiltered(data, f.yearRange), f)]

DataAfterBuild(data, f) == data

\* The body of the effect: the new networkData, currentEffect and the content
\* of processedData afterwards.
PipelineEffect(data, f, window, quantileVal, prevNetwork, prevEffect) ==
    IF Len(data) > 0
    THEN LET network == buildNetworkData(data, f, window, quantileVal)
         IN [networkData |-> network,
             currentEffect |-> IF Len(network.edges) > 0
                               THEN NetworkEffect(network.edges)
                               ELSE EffectWhenNoEdges(prevEffect),
             data |-> DataAfterBuild(data, f)]
    ELSE [networkData |-> prevNetwork, currentEffect |-> prevEffect, data |-> data]

-----------------------------------------------------------------------------
(* TopClustersModal (lines 828-857): the cluster ranking.                   *)
(* A combination's id is flatCodes.join('+'); codes never contain '+', so   *)
(* the code sequence stands for the joined string.                          *)

HasGroup(groups, id) == \E i \in 1..Len(groups) : groups[i].id = id

GroupIndex(groups, id) == CHOOSE i \in 1..Len(groups) : groups[i].id = id

\* The body of combinations.forEach(c => ...)   (lines 833-848)
AddToGroup(groups, c) ==
    LET m == IF ~HasGroup(groups, c.id)
             THEN Append(groups, [id |-> c.id, codes |-> c.codes, type |-> c.type,
                                  count |-> 0, totalCit |-> 0, citations |-> <<>>])
             ELSE groups
        i == GroupIndex(m, c.id)
    IN [m EXCEPT ![i] = [@ EXCEPT !.count = @ + 1,
                                  !.totalCit = @ + c.citation,
                                  !.citations = Append(@, c.citation)]]

RECURSIVE GroupCombinations(_, _)
GroupCombinations(groups, combinations) ==
    IF combinations = <<>> THEN groups
    ELSE GroupCombinations(AddToGroup(groups, Head(combinations)), Tail(combinations))

\* .map(g => ({ ...g, avgCit: g.count > 0 ? g.totalCit / g.count : 0 }))
FinishCluster(g) ==
    [id |-> g.id, codes |-> g.codes, type |-> g.type, count |-> g.count,
     totalCit |-> g.totalCit, citations |-> g.citations,
     avgCit |-> IF g.count > 0 THEN Frac(g.totalCit, g.count) ELSE FracZero]

RECURSIVE InsertByAvgCit(_, _)
\* One step of the stable sort by (a, b) => b.avgCit - a.avgCit.
InsertByAvgCit(sorted, x) ==
    IF sorted = <<>> THEN <<x>>
    ELSE IF FracLeq(x.avgCit, Head(sorted).avgCit)
         THEN <<Head(sorted)>> \o InsertByAvgCit(Tail(sorted), x)
         ELSE <<x>> \o sorted

\* The clusters left in Map order.
ClustersUnsorted(clusters) == clusters

RECURSIVE SortByAvgCit(_)
SortByAvgCit(clusters) ==
    IF clusters = <<>> THEN <<>>
    ELSE InsertByAvgCit(SortByAvgCit(SubSeq(clusters, 1, Len(clusters) - 1)),
                        clusters[Len(clusters)])

\* .slice(0, 10)   (line 857)
TopClusterCount == 10

\* const sortedClusters = Array.from(groups.values()).map(...).sort(...).slice(0, 10)
sortedClusters(combinations) ==
    LET groups == GroupCombinations(<<>>, combinations)
    IN Take(SortByAvgCit([i \in 1..Len(groups) |-> FinishCluster(groups[i])]),
            TopClusterCount)

-----------------------------------------------------------------------------
(* parseListString and processData (lines 46-99).                           *)
(* A raw list cell is [kind, list]:                                         *)
(*   "empty"    the empty string or a missing column (falsy)                *)
(*   "brackets" the string '[]'                                             *)
(*   "list"     a literal that JSON.parse turns into the array `list`       *)
(*   "garbage"  a string on which JSON.parse throws                         *)
(*   "number", "string", "null"   a literal that JSON.parse turns into a    *)
(*              value that is not an array (5, "abc", null)                 *)
(* A raw numeric cell is [ok, v]: parseFloat gives v when ok and NaN        *)
(* otherwise.                                                               *)

ListColumns == <<"theoretical", "methodological", "cross">>

NonArrayKinds == {"number", "string", "null"}

\* parseListString: [isArray, list]; a non-array result keeps isArray = FALSE.
parseListString(cell) ==
    IF cell.kind \in {"empty", "brackets"} THEN [isArray |-> TRUE, list |-> <<>>]
    ELSE IF cell.kind = "garbage" THEN [isArray |-> TRUE, list |-> <<>>]
    ELSE IF cell.kind = "list" THEN [isArray |-> TRUE, list |-> cell.list]
    ELSE [isArray |-> FALSE, list |-> <<>>]

\* list.map(...) on line 73 or 75 throws a TypeError when list is not an array.
\* The cell is parsed only if (d[col]) is truthy.
CellThrows(cell) == cell.kind # "empty" /\ ~parseListString(cell).isArray

\* Lines 66-80 for one column.
ListColumn(cell, col) ==
    IF cell.kind = "empty" THEN <<>>
    ELSE LET list == parseListString(cell).list
         IN IF col = "cross"
            THEN [i \in 1..Len(list) |->
                     [j \in 1..Len(list[i]) |-> normalize(list[i][j])]]
            ELSE [i \in 1..Len(list) |-> normalize(list[i])]

\* parseFloat(d[key]) || 0
NumericColumn(cell) == IF cell.ok THEN cell.v ELSE 0

\* The row callback (lines 61-91); i is the 0-based row index.
ProcessRawRow(d, i) ==
    [theoretical |-> ListColumn(d.theoretical, "theoretical"),
     methodological |-> ListColumn(d.methodological, "methodological"),
     cross |-> ListColumn(d.cross, "cross"),
     rao_stirling_theoretical |-> NumericColumn(d.rao_stirling_theoretical),
     rao_stirling_methodological |-> NumericColumn(d.rao_stirling_methodological),
     rao_stirling_cross |-> NumericColumn(d.rao_stirling_cross),
     publication_year |-> NumericColumn(d.publication_year),
     citation_1years |-> NumericColumn(d.citation_1years),
     citation_5years |-> NumericColumn(d.citation_5years),
     id |-> i]

RowThrows(d) == \E k \in 1..Len(ListColumns) : CellThrows(d[ListColumns[k]])

\* processData: an exception in the row callback leaves d3.csvParse and is
\* caught on line 95, which returns [].
processData(rawData) ==
    IF \E i \in 1..Len(rawData) : RowThrows(rawData[i])
    THEN <<>>
    ELSE [i \in 1..Len(rawData) |-> ProcessRawRow(rawData[i], i - 1)]

-----------------------------------------------------------------------------
(* Bounds and input sets.                                                   *)

MaxRecords == 2      \* rows in an input table
MaxTopN == 2         \* the topN slider (10..200 in the UI) ranges over 1..MaxTopN
MaxEvents == 3       \* user events in one run of the App
MaxSampleLen == 3    \* length of a quantile sample
MaxExtraCombos == 3  \* combinations appended to the base list of the cluster ranking

L(list) == IF list = <<>> THEN [kind |-> "brackets", list |-> <<>>]
           ELSE [kind |-> "list", list |-> list]
Num(v) == [ok |-> TRUE, v |-> v]

RawRow(theo, meth, cross, rsT, rsM, rsC, year, c1, c5) ==
    [theoretical |-> L(theo), methodological |-> L(meth), cross |-> L(cross),
     rao_stirling_theoretical |-> Num(rsT),
     rao_stirling_methodological |-> Num(rsM),
     rao_stirling_cross |-> Num(rsC),
     publication_year |-> Num(year),
     citation_1years |-> Num(c1), citation_5years |-> Num(c5)]

\* Raw rows.  Row1 and Row2 carry the two theoretical lists of the end-to-end
\* example; together the rows hold a pair listed in both orders, a three-code
\* list, a repeated code, short codes, negative RS values, equal magnitudes,
\* an empty list with a large RS, cross pairs, a one-element "pair", and a
\* cross pair that also occurs as a theoretical co-occurrence.
Row1 == RawRow(<<G13, G12>>, <<>>, << <<C5, G12>>, <<C10, G13>> >>,
               50, 0, -80, 2009, 0, 40)
Row2 == RawRow(<<E44, G12>>, <<C50, C10>>, << <<C10, G13>> >>,
               36, 30, 30, 2010, 1, 25)
Row3 == RawRow(<<G12, G13, E44>>, <<C10, C5>>, << <<G12, G13>> >>,
               -50, -50, 30, 2010, 1, 3)
Row4 == RawRow(<<>>, <<C10, C10>>, << <<C50, G12>>, <<E44>> >>,
               80, 30, 50, 2009, 4, 0)

RawPool == {Row1, Row2, Row3, Row4}

RawTables == UNION {[1..n -> RawPool] : n \in 0..MaxRecords}

DataTables == {processData(t) : t \in RawTables}

Years == {2009, 2010}
MinRSValues == {0, 50}
TopNValues == 1..MaxTopN
Windows == {"1years", "3years", "5years"}
QuantileValues == {10, 50, 90}

\* componentTypes: the lists without repetition that the check boxes produce
ComponentOrders ==
    {s \in UNION {[1..n -> Categories] : n \in 0..3} :
        \A i, j \in 1..Len(s) : i # j => s[i] # s[j]}

FilterSpace ==
    [yearRange : {<<2009, 2019>>, <<2010, 2019>>},
     minRS_theoretical : MinRSValues,
     minRS_methodological : MinRSValues,
     minRS_cross : MinRSValues,
     topN : TopNValues,
     componentTypes : ComponentOrders,
     showAnalysis : {FALSE}]

-----------------------------------------------------------------------------
(* The App (lines 899-966) and QuantileExplorer (lines 358-374).  The       *)
(* inputs are controlled: an onChange handler runs when the user gives the  *)
(* input a value other than the one it shows.                               *)

\* The debounce effect of QuantileExplorer (lines 369-374) on a new
\* localQuantile: the cleanup of the previous run clears the timer that run
\* armed (the last one armed, if it has not expired), then a new timer is
\* armed for the new value.
clearTimeout(timers) == SubSeq(timers, 1, Len(timers) - 1)

\* The effect without its cleanup: the previous timer stays armed.
DebounceEffectNoCleanup(timers, value) == Append(timers, value)

\* The effect with the cleanup but without a new timer.
DebounceEffectNoTimer(timers, value) == clearTimeout(timers)

DebounceEffect(timers, value) == Append(clearTimeout(timers), value)

InitialFilters ==
    [yearRange |-> <<2010, 2019>>,
     minRS_theoretical |-> 0, minRS_methodological |-> 0, minRS_cross |-> 0,
     topN |-> MaxTopN,
     componentTypes |-> <<"theoretical", "methodological", "cross">>,
     showAnalysis |-> FALSE]

EmptyNetwork == [nodes |-> <<>>, edges |-> <<>>, combinations |-> <<>>]

\* useState initial values; the debounce effect of QuantileExplorer has run once
\* on mount and armed a timer for the initial slider value.
AppInit ==
    /\ processedData = <<>>
    /\ filters = InitialFilters
    /\ citationWindow = "5years"
    /\ quantileValue = 50
    /\ networkData = EmptyNetwork
    /\ currentEffect = FracZero
    /\ localQuantile = 50
    /\ timer = DebounceEffect(NoTimer, 50)
    /\ isLoading = TRUE
    /\ nEvents = 0

Init ==
    /\ AppInit
    /\ fnIn = [fn |-> "none"]
    /\ fnOut = NotRun

\* The state after the pipeline effect has run on the new values of its
\* dependencies (processedData, filters, citationWindow, quantileValue).
Rerun(data, f, window, quantileVal) ==
    LET r == PipelineEffect(data, f, window, quantileVal, networkData, currentEffect)
    IN /\ processedData' = r.data
       /\ filters' = f
       /\ citationWindow' = window
       /\ quantileValue' = quantileVal
       /\ networkData' = r.networkData
       /\ currentEffect' = r.currentEffect

UserEvent ==
    /\ nEvents < MaxEvents
    /\ nEvents' = nEvents + 1

\* Tables the data file may hold in a run of the App.
AppTables ==
    {<<>>} \cup {<<r>> : r \in RawPool} \cup {<<Row1, Row2>>}
    \cup {<<[Row2 EXCEPT !.theoretical = [kind |-> "null", list |-> <<>>]]>>}

\* loadData (lines 925-941): the fetch succeeds and processData runs.
LoadData ==
    /\ isLoading
    /\ \E raw \in AppTables :
           Rerun(processData(raw), filters, citationWindow, quantileValue)
    /\ isLoading' = FALSE
    /\ UNCHANGED <<localQuantile, timer, nEvents, fnIn, fnOut>>

\* loadData when fetch or response.text() rejects (line 936).
LoadDataFails ==
    /\ isLoading
    /\ isLoading' = FALSE
    /\ UNCHANGED <<processedData, filters, citationWindow, quantileValue, networkData,
                   currentEffect, localQuantile, timer, nEvents, fnIn, fnOut>>

\* handleYearChange (lines 491-495); idx is 1-based here.
YearChange ==
    /\ UserEvent
    /\ \E idx \in 1..2, value \in Years :
           /\ value # filters.yearRange[idx]
           /\ Rerun(processedData, [filters EXCEPT !.yearRange[idx] = value],
                    citationWindow, quantileValue)
    /\ UNCHANGED <<localQuantile, timer, isLoading, fnIn, fnOut>>

\* handleComponentToggle (lines 497-503)
ComponentToggle ==
    /\ UserEvent
    /\ \E component \in Categories :
           LET current == filters.componentTypes
               newTypes == IF component \in Range(current)
                           THEN SelectSeq(current, LAMBDA c : c # component)
                           ELSE Append(current, component)
           IN Rerun(processedData, [filters EXCEPT !.componentTypes = newTypes],
                    citationWindow, quantileValue)
    /\ UNCHANGED <<localQuantile, timer, isLoading, fnIn, fnOut>>

\* The Min RS sliders (lines 579-599), disabled while their component is off.
MinRSChange ==
    /\ UserEvent
    /\ \E component \in Range(filters.componentTypes), value \in MinRSValues :
           /\ value # filters[minRSField(component)]
           /\ Rerun(processedData, [filters EXCEPT ![minRSField(component)] = value],
                    citationWindow, quantileValue)
    /\ UNCHANGED <<localQuantile, timer, isLoading, fnIn, fnOut>>

\* The topN slider (lines 603-611)
TopNChange ==
    /\ UserEvent
    /\ \E value \in TopNValues :
           /\ value # filters.topN
           /\ Rerun(processedData, [filters EXCEPT !.topN = value],
                    citationWindow, quantileValue)
    /\ UNCHANGED <<localQuantile, timer, isLoading, fnIn, fnOut>>

\* The citation window radio buttons (line 390)
SetCitationWindow ==
    /\ UserEvent
    /\ \E window \in Windows :
           /\ window # citationWindow
           /\ Rerun(processedData, filters, window, quantileValue)
    /\ UNCHANGED <<localQuantile, timer, isLoading, fnIn, fnOut>>

\* onOpenAnalysis (line 1002) and the modal's onClose (line 1068): a new filters
\* object with the same filter values, so the pipeline effect runs again.
ToggleAnalysis ==
    /\ UserEvent
    /\ Rerun(processedData, [filters EXCEPT !.showAnalysis = ~@],
             citationWindow, quantileValue)
    /\ UNCHANGED <<localQuantile, timer, isLoading, fnIn, fnOut>>

\* The slider's onChange (line 409), which re-runs the debounce effect.
SliderChange ==
    /\ UserEvent
    /\ \E value \in QuantileValues :
           /\ value # localQuantile
           /\ localQuantile' = value
           /\ timer' = DebounceEffect(timer, value)
    /\ UNCHANGED <<processedData, filters, citationWindow, quantileValue, networkData,
                   currentEffect, isLoading, fnIn, fnOut>>

\* A pending timer expires and its callback runs (line 371):
\* setQuantileValue(localQuantile), with the localQuantile of the render that
\* armed it.
TimerFire ==
    /\ \E i \in 1..Len(timer) :
           /\ timer' = SubSeq(timer, 1, i - 1) \o SubSeq(timer, i + 1, Len(timer))
           /\ IF timer[i] # quantileValue
              THEN Rerun(processedData, filters, citationWindow, timer[i])
              ELSE UNCHANGED <<processedData, filters, citationWindow, quantileValue,
                               networkData, currentEffect>>
    /\ UNCHANGED <<localQuantile, isLoading, nEvents, fnIn, fnOut>>

Next ==
    \/ LoadData
    \/ LoadDataFails
    \/ YearChange
    \/ ComponentToggle
    \/ MinRSChange
    \/ TopNChange
    \/ SetCitationWindow
    \/ ToggleAnalysis
    \/ SliderChange
    \/ TimerFire

Spec == Init /\ [][Next]_vars

\* The expiry of a pending timer, as a step of the timer list alone.  The
\* steps of Next that take a timer off the list are the TimerFire steps, and
\* TimerFire is enabled exactly when the list is not empty.
TimerExpires ==
    \E i \in 1..Len(timer) :
        timer' = SubSeq(timer, 1, i - 1) \o SubSeq(timer, i + 1, Len(timer))

\* A timer armed by setTimeout and not cleared expires: its callback runs.
SpecLive == Spec /\ WF_timer(TimerExpires)

-----------------------------------------------------------------------------
(* Function-level specifications: the input is drawn in the initial state   *)
(* and one action applies the function.  The App's variables stay at their  *)
(* initial values.                                                          *)

CitationValues == {0, 1, 3, 40}
Taus == {0, 10, 25, 50, 90, 100}
Samples == UNION {[1..n -> CitationValues] : n \in 1..MaxSampleLen}

InitQuantile ==
    /\ AppInit
    /\ fnIn \in [fn : {"quantile"}, arr : Samples, q : Taus]
    /\ fnOut = NotRun

ApplyQuantile ==
    /\ fnIn.fn = "quantile"
    /\ ~fnOut.done
    /\ fnOut' = [done |-> TRUE, value |-> quantile(fnIn.arr, fnIn.q)]
    /\ UNCHANGED <<appVars, fnIn>>

SpecQuantile == InitQuantile /\ [][ApplyQuantile]_vars

\* Raw tables in which list cells may be malformed: each cell of the first two
\* pool rows may be replaced by a cell of another kind.
BadCells ==
    {[kind |-> k, list |-> <<>>] : k \in NonArrayKinds \cup {"garbage", "empty"}}

BadNumber == [ok |-> FALSE, v |-> 0]

MalformedRows ==
    {[r EXCEPT ![col] = cell] :
        r \in {Row1, Row2}, col \in Range(ListColumns), cell \in BadCells}
    \cup {[Row1 EXCEPT !.rao_stirling_theoretical = BadNumber],
          [Row2 EXCEPT !.citation_5years = BadNumber]}

LoadTables == UNION {[1..n -> RawPool \cup MalformedRows] : n \in 0..MaxRecords}

InitLoad ==
    /\ AppInit
    /\ fnIn \in [fn : {"processData"}, raw : LoadTables]
    /\ fnOut = NotRun

ApplyProcessData ==
    /\ fnIn.fn = "processData"
    /\ ~fnOut.done
    /\ fnOut' = [done |-> TRUE, value |-> processData(fnIn.raw)]
    /\ UNCHANGED <<appVars, fnIn>>

SpecLoad == InitLoad /\ [][ApplyProcessData]_vars

\* The records are loaded through processData from a drawn raw table.
InitBuild ==
    /\ AppInit
    /\ \E raw \in RawTables, f \in FilterSpace, window \in {"1years", "5years"} :
           fnIn = [fn |-> "buildNetworkData", raw |-> raw, data |-> processData(raw),
                   filters |-> f, citationWindow |-> window, quantileValue |-> 50]
    /\ fnOut = NotRun

\* One run of the pipeline effect on the drawn input, from the App's initial
\* networkData and currentEffect.
ApplyBuild ==
    /\ fnIn.fn = "buildNetworkData"
    /\ ~fnOut.done
    /\ LET r == PipelineEffect(fnIn.data, fnIn.filters, fnIn.citationWindow,
                               fnIn.quantileValue, EmptyNetwork, FracZero)
       IN fnOut' = [done |-> TRUE, networkData |-> r.networkData,
                    currentEffect |-> r.currentEffect, data |-> r.data]
    /\ UNCHANGED <<appVars, fnIn>>

SpecBuild == InitBuild /\ [][ApplyBuild]_vars

\* Combination lists for the cluster ranking: nine combinations with pairwise
\* different code-sets, followed by up to MaxExtraCombos more that repeat a
\* code-set or bring a new one.
Combo(codes, type, citation) ==
    [id |-> codes, codes |-> codes, type |-> type, citation |-> citation, year |-> 2010]

BaseCombos ==
    [k \in 1..9 |-> Combo(<<Code(1, 1, k), Code(2, 1, k)>>, "theoretical", (3 * k) % 7)]

ExtraCombos ==
    {Combo(codes, "cross", cit) :
        codes \in {<<Code(1, 1, 1), Code(2, 1, 1)>>, <<G12, G13>>, <<E44, G12>>,
                   <<C10, C50, G12>>},
        cit \in {0, 9}}

CombinationLists ==
    {BaseCombos \o ext : ext \in UNION {[1..n -> ExtraCombos] : n \in 0..MaxExtraCombos}}

InitClusters ==
    /\ AppInit
    /\ fnIn \in [fn : {"TopClustersModal"}, combinations : CombinationLists]
    /\ fnOut = NotRun

ApplyClusters ==
    /\ fnIn.fn = "TopClustersModal"
    /\ ~fnOut.done
    /\ fnOut' = [done |-> TRUE, value |-> sortedClusters(fnIn.combinations)]
    /\ UNCHANGED <<appVars, fnIn>>

SpecClusters == InitClusters /\ [][ApplyClusters]_vars

-----------------------------------------------------------------------------
(* Properties of buildNetworkData, checked under SpecBuild.                 *)

\* The drawn input of SpecBuild.
InFiltered == YearFiltered(fnIn.data, fnIn.filters.yearRange)
InActive == Range(fnIn.filters.componentTypes)
InSelected(c) == SelectRows(InFiltered, c, fnIn.filters)
InQualifying(c) ==
    {InFiltered[i] : i \in {k \in 1..Len(InFiltered) : Qualifies(InFiltered[k], c, fnIn.filters)}}
Built == fnIn.fn = "buildNetworkData" /\ fnOut.done

\* C1: for every active category c, every record fed into aggregation for c
\* has |rao_stirling_c| >= minRS_c, and at most topN records are selected for c.
C1_ThresholdAndTopN ==
    Built =>
        \A c \in InActive :
            /\ Len(InSelected(c)) <= fnIn.filters.topN
            /\ \A i \in 1..Len(InSelected(c)) :
                   Abs(InSelected(c)[i][rsCol(c)]) >= fnIn.filters[minRSField(c)]

\* The threshold rejects a record that has codes, and the truncation drops a
\* qualifying record.
C1_Witness ==
    /\ Built
    /\ \E c \in InActive :
           /\ Len(InSelected(c)) > 0
           /\ \E i \in 1..Len(InFiltered) :
                  /\ Len(InFiltered[i][c]) > 0
                  /\ Abs(InFiltered[i][rsCol(c)]) < fnIn.filters[minRSField(c)]
    /\ \E c \in InActive :
           /\ Cardinality(InQualifying(c)) > fnIn.filters.topN
           /\ Len(InSelected(c)) = fnIn.filters.topN

\* C2: for every active category c, the selected records are the topN largest by
\* |rao_stirling_c| among the records passing the year, non-empty-list and
\* threshold filters: they are qualifying records, as many as topN allows, and no
\* qualifying record left out has a strictly larger magnitude than a selected one.
C2_TopNByMagnitude ==
    Built =>
        \A c \in InActive :
            LET sel == Range(InSelected(c))
                qual == InQualifying(c)
            IN /\ sel \subseteq qual
               /\ Cardinality(sel) = Len(InSelected(c))
               /\ Cardinality(sel) =
                      (IF Cardinality(qual) < fnIn.filters.topN
                       THEN Cardinality(qual) ELSE fnIn.filters.topN)
               /\ \A r \in qual \ sel : \A x \in sel :
                      Abs(r[rsCol(c)]) <= Abs(x[rsCol(c)])

\* A negative value is selected and a qualifying positive value of smaller
\* magnitude is left out by the truncation.
C2_Witness ==
    /\ Built
    /\ \E c \in InActive :
           \E x \in Range(InSelected(c)) :
               \E r \in InQualifying(c) \ Range(InSelected(c)) :
                   /\ x[rsCol(c)] < 0
                   /\ r[rsCol(c)] > 0
                   /\ r[rsCol(c)] < Abs(x[rsCol(c)])

\* The drawn table with the two codes of every two-code list, and of every
\* cross pair, exchanged: (A,B) becomes (B,A).
SwapTwo(list) == IF Len(list) = 2 THEN <<list[2], list[1]>> ELSE list

SwapRow(r) ==
    [r EXCEPT !.theoretical = SwapTwo(@),
              !.methodological = SwapTwo(@),
              !.cross = [i \in 1..Len(@) |-> SwapTwo(@[i])]]

SwappedEdges ==
    buildNetworkData([i \in 1..Len(fnIn.data) |-> SwapRow(fnIn.data[i])],
                     fnIn.filters, fnIn.citationWindow, fnIn.quantileValue).edges

Endpoints(e) == {e.source, e.target}

\* C3 as stated: building the graph from records listing (A,B) yields the same
\* edge entries, source and target included, as building it from the same
\* records listing (B,A).
C3_SameEntryAsStated ==
    Built => fnOut.networkData.edges = SwappedEdges

\* C3, amended: exchanging (A,B) for (B,A) yields the same edges in the same
\* order, each with the same unordered pair of endpoints, type, weight, count,
\* effect list, citation list and derived means; only the orientation (which
\* endpoint is source and which is target) may differ.
C3_SameEdgeUpToOrientation ==
    Built =>
        LET es == fnOut.networkData.edges
            sw == SwappedEdges
        IN /\ Len(es) = Len(sw)
           /\ \A i \in 1..Len(es) :
                  /\ Endpoints(es[i]) = Endpoints(sw[i])
                  /\ es[i].type = sw[i].type
                  /\ es[i].weight = sw[i].weight
                  /\ es[i].count = sw[i].count
                  /\ es[i].betas = sw[i].betas
                  /\ es[i].citations = sw[i].citations
                  /\ es[i].avgBeta = sw[i].avgBeta
                  /\ es[i].avgCitations = sw[i].avgCitations
                  /\ es[i].citationAtQuantile = sw[i].citationAtQuantile

\* An edge fed by several contributions whose orientation changes with the
\* exchange.
C3_Witness ==
    /\ Built
    /\ \E i \in 1..Len(fnOut.networkData.edges) :
           /\ i <= Len(SwappedEdges)
           /\ fnOut.networkData.edges[i].count >= 2
           /\ fnOut.networkData.edges[i].source = SwappedEdges[i].target
           /\ fnOut.networkData.edges[i].source # SwappedEdges[i].source

\* The (source, target) pairs contributed under category c by its selected rows.
ContribPairs(c) ==
    UNION {Range(RowEdgePairs(InSelected(c)[i], c)) : i \in 1..Len(InSelected(c))}

\* C4: in the returned edge list no two edges have the same unordered pair of
\* endpoints.
C4_OneEdgePerUnorderedPair ==
    Built =>
        \A i, j \in 1..Len(fnOut.networkData.edges) :
            i # j => Endpoints(fnOut.networkData.edges[i])
                     # Endpoints(fnOut.networkData.edges[j])

\* A pair contributed as (A,B) under one category and as (B,A) under another.
C4_Witness ==
    /\ Built
    /\ \E c1, c2 \in InActive :
           /\ c1 # c2
           /\ \E pr \in ContribPairs(c1) :
                  /\ pr[1] # pr[2]
                  /\ <<pr[2], pr[1]>> \in ContribPairs(c2)

\* The number of times the selected rows list the unordered pair S: once per
\* pair of positions of a theoretical or methodological list, once per
\* two-element entry of a cross list.
ListTimes(list, S) ==
    Cardinality({pp \in (1..Len(list)) \X (1..Len(list)) :
                    pp[1] < pp[2] /\ {list[pp[1]], list[pp[2]]} = S})

CrossTimes(list, S) ==
    Cardinality({k \in 1..Len(list) : Len(list[k]) = 2 /\ Range(list[k]) = S})

CategoryTimes(c, S) ==
    IF c \in InActive
    THEN SeqSum([i \in 1..Len(InSelected(c)) |->
                    IF c = "cross" THEN CrossTimes(InSelected(c)[i].cross, S)
                    ELSE ListTimes(InSelected(c)[i][c], S)])
    ELSE 0

ListedTimes(S) ==
    CategoryTimes("theoretical", S) + CategoryTimes("methodological", S)
    + CategoryTimes("cross", S)

AllCodes ==
    UNION {Range(fnIn.data[i].theoretical) \cup Range(fnIn.data[i].methodological)
           \cup Range(Flat(fnIn.data[i].cross)) : i \in 1..Len(fnIn.data)}

Distinct(list) == \A k, l \in 1..Len(list) : k # l => list[k] # list[l]

\* C6: every edge's count is the number of times its unordered pair is listed
\* (each pair of positions of a theoretical or methodological list, each
\* two-element cross entry), and no other pair gets an edge.  So one selected
\* theoretical or methodological record with n distinct codes alone yields
\* n(n-1)/2 edges of count 1, and one selected cross record with k distinct
\* pairs alone yields k edges of count 1.
C6_CliqueVersusListedPairs ==
    Built =>
        LET es == fnOut.networkData.edges
        IN /\ \A i \in 1..Len(es) : es[i].count = ListedTimes(Endpoints(es[i]))
           /\ \A a, b \in AllCodes :
                  ListedTimes({a, b}) > 0 => \E i \in 1..Len(es) : Endpoints(es[i]) = {a, b}
           /\ \A c \in Categories \ {"cross"} :
                  (InActive = {c} /\ Len(InSelected(c)) = 1
                   /\ Distinct(InSelected(c)[1][c]))
                  => LET n == Len(InSelected(c)[1][c])
                     IN /\ 2 * Len(es) = n * (n - 1)
                        /\ \A i \in 1..Len(es) : es[i].count = 1
           /\ (InActive = {"cross"} /\ Len(InSelected("cross")) = 1
               /\ Distinct(ValidPairs(InSelected("cross")[1].cross)))
              => /\ Len(es) = Len(ValidPairs(InSelected("cross")[1].cross))
                 /\ \A i \in 1..Len(es) :
                        /\ es[i].count = 1
                        /\ <<es[i].source, es[i].target>>
                               \in Range(InSelected("cross")[1].cross)

\* A three-code theoretical list alone: three edges.
C6_Witness ==
    /\ Built
    /\ InActive = {"theoretical"}
    /\ Len(InSelected("theoretical")) = 1
    /\ Len(InSelected("theoretical")[1].theoretical) = 3
    /\ Len(fnOut.networkData.edges) = 3

\* C7: whenever the pipeline produces at least one edge, the network-level
\* current effect lies within [min avgBeta over edges, max avgBeta over edges].
\* (Citation counts are non-negative, as in the data model.)
C7_EffectWithinAvgBetaRange ==
    (Built /\ Len(fnOut.networkData.edges) > 0) =>
        LET es == fnOut.networkData.edges
        IN /\ \E i \in 1..Len(es) : FracLeq(es[i].avgBeta, fnOut.currentEffect)
           /\ \E i \in 1..Len(es) : FracLeq(fnOut.currentEffect, es[i].avgBeta)

\* Edges of different avgBeta and different weight, the effect strictly between.
C7_Witness ==
    /\ Built
    /\ \E i, j \in 1..Len(fnOut.networkData.edges) :
           LET es == fnOut.networkData.edges
           IN /\ EdgeWeight(es[i]) # EdgeWeight(es[j])
              /\ ~FracLeq(fnOut.currentEffect, es[i].avgBeta)
              /\ ~FracLeq(es[j].avgBeta, fnOut.currentEffect)
              /\ es[i].avgBeta[1] < 0

-----------------------------------------------------------------------------
(* Properties of quantile, checked under SpecQuantile.                      *)

SeqMin(arr) == CHOOSE x \in Range(arr) : \A y \in Range(arr) : x <= y
SeqMax(arr) == CHOOSE x \in Range(arr) : \A y \in Range(arr) : y <= x

\* C5: quantile(xs, 0) is the minimum of xs, quantile(xs, 1) the maximum, and
\* quantile([v], tau) is v for every tau.  (Results are in hundredths.)
C5_QuantileEnds ==
    (fnIn.fn = "quantile" /\ fnOut.done) =>
        /\ fnIn.q = 0 => fnOut.value = 100 * SeqMin(fnIn.arr)
        /\ fnIn.q = 100 => fnOut.value = 100 * SeqMax(fnIn.arr)
        /\ Len(fnIn.arr) = 1 => fnOut.value = 100 * fnIn.arr[1]

\* tau = 0 on an unsorted sample of distinct values.
C5_Witness ==
    /\ fnIn.fn = "quantile"
    /\ fnOut.done
    /\ fnIn.q = 0
    /\ Len(fnIn.arr) >= 2
    /\ fnIn.arr[1] > fnIn.arr[2]
    /\ fnOut.value = 100 * fnIn.arr[2]

-----------------------------------------------------------------------------
(* Properties of processData, checked under SpecLoad.                       *)

\* A list cell that is unparseable or parses to something that is not a list.
Malformed(cell) == cell.kind \in NonArrayKinds \cup {"garbage"}

MalformedCells(raw) ==
    {x \in (1..Len(raw)) \X Range(ListColumns) : Malformed(raw[x[1]][x[2]])}

\* The rows the claim expects: every row kept, a malformed list cell read as
\* the empty list.
ExpectedRows(raw) ==
    [i \in 1..Len(raw) |->
        ProcessRawRow([c \in DOMAIN raw[i] |->
                          IF c \in Range(ListColumns) /\ Malformed(raw[i][c])
                          THEN [kind |-> "empty", list |-> <<>>]
                          ELSE raw[i][c]], i - 1)]

\* C10: for every table in which one row has a malformed list cell, processData
\* returns all rows, that cell replaced by the empty list and the other rows
\* unaffected.
C10_BadCellKeepsAllRows ==
    (fnIn.fn = "processData" /\ fnOut.done /\ Cardinality(MalformedCells(fnIn.raw)) = 1)
        => fnOut.value = ExpectedRows(fnIn.raw)

-----------------------------------------------------------------------------
(* Properties of the App, checked under Spec.                               *)

\* C8: whenever the most recent pipeline run produced an empty edge list, the
\* current effect held by the application is 0.
C8_NoEdgesEffectZero ==
    (Len(processedData) > 0 /\ Len(networkData.edges) = 0) => currentEffect = FracZero

-----------------------------------------------------------------------------
(* Order of the active categories, checked under SpecBuild.                 *)

\* The orderings of the drawn set of active componentTypes.
Orderings == {p \in ComponentOrders : Range(p) = InActive}

\* buildNetworkData on the drawn input with componentTypes in the order p.
BuiltWith(p) ==
    buildNetworkData(fnIn.data, [fnIn.filters EXCEPT !.componentTypes = p],
                     fnIn.citationWindow, fnIn.quantileValue)

\* The accumulated attributes of a node and of an edge, lists read as multisets
\* (sorted) and the year list as a set.
NodeSums(n) ==
    [id |-> n.id, count |-> n.count, totalRS |-> n.totalRS,
     rs_theoretical |-> n.rs_theoretical, count_theoretical |-> n.count_theoretical,
     rs_methodological |-> n.rs_methodological,
     count_methodological |-> n.count_methodological,
     rs_cross |-> n.rs_cross, count_cross |-> n.count_cross,
     years |-> Range(n.years), citations |-> SortAsc(n.citations)]

EdgeSums(e) ==
    [ends |-> Endpoints(e), weight |-> e.weight, count |-> e.count,
     betas |-> SortAsc(e.betas), citations |-> SortAsc(e.citations)]

NodeSumsOf(net) == {NodeSums(net.nodes[i]) : i \in 1..Len(net.nodes)}
EdgeSumsOf(net) == {EdgeSums(net.edges[i]) : i \in 1..Len(net.edges)}

NodeLabelsOf(net) == {<<net.nodes[i].id, net.nodes[i].category>> : i \in 1..Len(net.nodes)}
EdgeLabelsOf(net) == {<<Endpoints(net.edges[i]), net.edges[i].type>> : i \in 1..Len(net.edges)}

\* C11 as stated: every ordering of the same set of active componentTypes
\* yields the same nodes and edges with equal attributes, the node category
\* and the edge type included.
C11_SameLabelsAsStated ==
    Built =>
        \A p \in Orderings :
            /\ NodeSumsOf(BuiltWith(p)) = NodeSumsOf(fnOut.networkData)
            /\ EdgeSumsOf(BuiltWith(p)) = EdgeSumsOf(fnOut.networkData)
            /\ NodeLabelsOf(BuiltWith(p)) = NodeLabelsOf(fnOut.networkData)
            /\ EdgeLabelsOf(BuiltWith(p)) = EdgeLabelsOf(fnOut.networkData)

\* C11, amended: every ordering of the same set of active componentTypes yields
\* the same node ids and the same unordered edge pairs, each with equal counts
\* (overall and per category), equal accumulated RS, the same years and the
\* same citation and effect samples as multisets; the node category and the
\* edge type are those of the first contribution and may differ.
C11_SameAccumulators ==
    Built =>
        \A p \in Orderings :
            /\ NodeSumsOf(BuiltWith(p)) = NodeSumsOf(fnOut.networkData)
            /\ EdgeSumsOf(BuiltWith(p)) = EdgeSumsOf(fnOut.networkData)
            /\ Len(BuiltWith(p).nodes) = Len(fnOut.networkData.nodes)
            /\ Len(BuiltWith(p).edges) = Len(fnOut.networkData.edges)

\* Two orderings of two or more active categories under which an edge fed by
\* more than one category gets different types and a node different categories.
C11_Witness ==
    /\ Built
    /\ Cardinality(InActive) >= 2
    /\ \E p \in Orderings :
           /\ EdgeLabelsOf(BuiltWith(p)) # EdgeLabelsOf(fnOut.networkData)
           /\ NodeLabelsOf(BuiltWith(p)) # NodeLabelsOf(fnOut.networkData)
           /\ \E i \in 1..Len(fnOut.networkData.edges) :
                  fnOut.networkData.edges[i].count >= 2


-----------------------------------------------------------------------------
(* Code normalization, checked under SpecBuild on records loaded through    *)
(* processData.                                                             *)

\* The expanded form of a code: a letter and one digit get a trailing 0.
Expanded(c) == IF c % 100 = 0 THEN c + 1 ELSE c

ExpandedCell(cell, col) ==
    IF col = "cross"
    THEN [cell EXCEPT !.list = [i \in 1..Len(@) |->
                                   [j \in 1..Len(@[i]) |-> Expanded(@[i][j])]]]
    ELSE [cell EXCEPT !.list = [i \in 1..Len(@) |-> Expanded(@[i])]]

\* The raw table with every short code written in its expanded form.
ExpandedRaw(raw) ==
    [i \in 1..Len(raw) |->
        [col \in DOMAIN raw[i] |->
            IF col \in Range(ListColumns) THEN ExpandedCell(raw[i][col], col)
            ELSE raw[i][col]]]

\* C12: for records loaded through processData, no node id and no edge
\* endpoint of the output is a short code (one letter, one digit), and the
\* output equals the one built from the same table with every short code
\* written in its expanded form: both forms feed the same nodes and edges.
C12_ShortAndExpandedMerge ==
    Built =>
        /\ \A i \in 1..Len(fnOut.networkData.nodes) :
               fnOut.networkData.nodes[i].id % 100 # 0
        /\ \A i \in 1..Len(fnOut.networkData.edges) :
               /\ fnOut.networkData.edges[i].source % 100 # 0
               /\ fnOut.networkData.edges[i].target % 100 # 0
        /\ fnOut.networkData =
               buildNetworkData(processData(ExpandedRaw(fnIn.raw)), fnIn.filters,
                                fnIn.citationWindow, fnIn.quantileValue)

\* One selected row lists C5 and another lists C50 under methodological; the
\* node C50 has both contributions.
C12_Witness ==
    /\ Built
    /\ InActive = {"methodological"}
    /\ Len(InSelected("methodological")) = 2
    /\ \E i, j \in 1..Len(fnIn.raw) :
           /\ C5 \in Range(fnIn.raw[i].methodological.list)
           /\ C50 \in Range(fnIn.raw[j].methodological.list)
    /\ \E k \in 1..Len(fnOut.networkData.nodes) :
           /\ fnOut.networkData.nodes[k].id = C50
           /\ fnOut.networkData.nodes[k].count = 2


-----------------------------------------------------------------------------
(* Combinations, checked under SpecBuild.                                   *)

Combos == fnOut.networkData.combinations

\* C13: the code-set of every Combination is sorted ascending and contains no
\* duplicate code, for every category, also when the record's code-list
\* repeats a code.
C13_SortedNoDuplicates ==
    Built =>
        \A k \in 1..Len(Combos) :
            \A i, j \in 1..Len(Combos[k].codes) :
                i < j => Combos[k].codes[i] < Combos[k].codes[j]

\* The codes a row lists under a category (for cross: both sides of every entry).
ListedCodes(row, c) == IF c = "cross" THEN Flat(row[c]) ELSE row[c]

\* The selected rows of category c that list at least two codes under c.
RowsWithTwoCodes(c) ==
    SelectSeq(InSelected(c), LAMBDA row : Len(ListedCodes(row, c)) >= 2)

CombosOfType(c) == SelectSeq(Combos, LAMBDA x : x.type = c)

\* C14: for every active category c the Combinations of type c are, one for
\* one and in order, the selected records that list at least 2 codes under c
\* (a cross record with a single pair lists 2), and there is no Combination of
\* an inactive category.
C14_OneCombinationPerRecord ==
    Built =>
        /\ \A k \in 1..Len(Combos) : Combos[k].type \in InActive
        /\ \A c \in InActive :
               /\ Len(CombosOfType(c)) = Len(RowsWithTwoCodes(c))
               /\ \A k \in 1..Len(CombosOfType(c)) :
                      /\ k <= Len(RowsWithTwoCodes(c))
                      /\ Range(CombosOfType(c)[k].codes)
                             = Range(ListedCodes(RowsWithTwoCodes(c)[k], c))


-----------------------------------------------------------------------------
(* The cluster ranking, checked under SpecClusters.                         *)

\* The combinations of the drawn list that have the code-set codes.
WithCodes(codes) ==
    SelectSeq(fnIn.combinations, LAMBDA c : c.codes = codes)

\* The mean citation value of the combinations with the code-set codes.
MeanCitation(codes) ==
    Frac(SeqSum([k \in 1..Len(WithCodes(codes)) |-> WithCodes(codes)[k].citation]),
         Len(WithCodes(codes)))

InputCodeSets == {fnIn.combinations[k].codes : k \in 1..Len(fnIn.combinations)}

Ranked == fnOut.value

\* C15: the ranking has at most 10 clusters with pairwise distinct code-sets,
\* in non-increasing order of average citations; each listed cluster's count
\* is the number of combinations with its code-set and its average their mean
\* citation value; no code-set left out has a strictly larger average than a
\* listed one.
C15_ClusterRanking ==
    (fnIn.fn = "TopClustersModal" /\ fnOut.done) =>
        /\ Len(Ranked) <= 10
        /\ \A i, j \in 1..Len(Ranked) :
               i < j => /\ Ranked[i].codes # Ranked[j].codes
                        /\ FracLeq(Ranked[j].avgCit, Ranked[i].avgCit)
        /\ \A i \in 1..Len(Ranked) :
               /\ Ranked[i].codes \in InputCodeSets
               /\ Ranked[i].count = Len(WithCodes(Ranked[i].codes))
               /\ Ranked[i].avgCit = MeanCitation(Ranked[i].codes)
        /\ \A codes \in InputCodeSets \ {Ranked[i].codes : i \in 1..Len(Ranked)} :
               \A i \in 1..Len(Ranked) : FracLeq(MeanCitation(codes), Ranked[i].avgCit)

\* More than 10 code-sets, one of them repeated with different citation
\* values, and a late code-set ranked first.
C15_Witness ==
    /\ fnIn.fn = "TopClustersModal"
    /\ fnOut.done
    /\ Cardinality(InputCodeSets) > 10
    /\ Len(Ranked) = 10
    /\ \E i \in 1..Len(Ranked) : Ranked[i].count >= 2 /\ Ranked[i].avgCit[2] = 2
    /\ Ranked[1].codes = fnIn.combinations[Len(fnIn.combinations)].codes


-----------------------------------------------------------------------------
(* The weights of the current effect, checked under SpecBuild.              *)

\* max(citationAtQuantile, 1), in hundredths.
FlooredWeight(e) == IF e.citationAtQuantile < 100 THEN 100 ELSE e.citationAtQuantile

RECURSIVE FlooredWeightedBeta(_)
FlooredWeightedBeta(edges) ==
    IF edges = <<>> THEN FracZero
    ELSE FracAdd(Frac(Head(edges).avgBeta[1] * FlooredWeight(Head(edges)),
                      Head(edges).avgBeta[2]),
                 FlooredWeightedBeta(Tail(edges)))

RECURSIVE FlooredTotal(_)
FlooredTotal(edges) ==
    IF edges = <<>> THEN 0 ELSE FlooredWeight(Head(edges)) + FlooredTotal(Tail(edges))

\* The mean of avgBeta over the edges, each weighted by max(citationAtQuantile, 1).
FlooredEffect(edges) ==
    Frac(FlooredWeightedBeta(edges)[1], FlooredWeightedBeta(edges)[2] * FlooredTotal(edges))

\* C16: in the current effect every edge is weighted by
\* max(citationAtQuantile, 1): the effect of a run with edges is the mean of
\* avgBeta under these weights, so no edge enters with a weight below 1, also
\* when its interpolated citationAtQuantile lies strictly between 0 and 1.
C16_WeightFloorOne ==
    (Built /\ Len(fnOut.networkData.edges) > 0) =>
        fnOut.currentEffect = FlooredEffect(fnOut.networkData.edges)


-----------------------------------------------------------------------------
(* Edge endpoints and edge types, checked under SpecBuild.                  *)

\* C17: no returned edge has its source equal to its target, also when a
\* theoretical or methodological code-list repeats a code.
C17_NoSelfEdge ==
    Built =>
        \A i \in 1..Len(fnOut.networkData.edges) :
            fnOut.networkData.edges[i].source # fnOut.networkData.edges[i].target


\* C20: every contribution accumulated on an edge of type t comes from a
\* record selected under category t: the edge's count is the number of times
\* the records selected under t list its pair, also when the pair occurs
\* under more than one active category.
C20_ContributionsOfOwnType ==
    Built =>
        \A i \in 1..Len(fnOut.networkData.edges) :
            fnOut.networkData.edges[i].count
                = CategoryTimes(fnOut.networkData.edges[i].type,
                                Endpoints(fnOut.networkData.edges[i]))

-----------------------------------------------------------------------------
(* The debounce of the quantile slider, checked under Spec and SpecLive.    *)

\* C18: a slider value replaced by another slider change before its timer
\* expires is never committed: every change of quantileValue commits the
\* current slider value, and a slider change leaves one pending timer, the
\* one for the new value (the timer of the previous change is cancelled).
C18_OnlyLastValueCommitted ==
    [][/\ (quantileValue' # quantileValue) => (quantileValue' = localQuantile)
       /\ (localQuantile' # localQuantile) => (timer' = <<localQuantile'>>)]_vars

\* Two slider changes in a row with no timer expiry in between: the value of
\* the first (neither the initial 0.50 nor the current one) was replaced
\* while its timer was pending, and only the timer of the second is pending.
C18_Witness ==
    /\ nEvents = 2
    /\ filters = InitialFilters
    /\ citationWindow = "5years"
    /\ quantileValue = 50
    /\ localQuantile = 90
    /\ timer = <<90>>

\* The pipeline result reflects the committed quantile value.
ResultReflects(v) ==
    /\ quantileValue = v
    /\ Len(processedData) > 0 =>
           networkData = buildNetworkData(processedData, filters, citationWindow, v)

\* C19: once the slider rests on a value, the pending timer eventually fires,
\* the committed quantileValue becomes that value and the pipeline result
\* reflects it, unless the slider moves again first.
C19_LastValueCommitted ==
    \A v \in QuantileValues :
        (localQuantile = v) ~>
            (localQuantile # v \/ (timer = <<>> /\ ResultReflects(v)))

\* The slider came to rest on a value other than the committed one, the timer
\* fired, and the network over loaded records is the one for that value.
C19_Witness ==
    /\ nEvents >= 1
    /\ localQuantile # 50
    /\ timer = <<>>
    /\ quantileValue = localQuantile
    /\ Len(networkData.edges) > 0
    /\ networkData # buildNetworkData(processedData, filters, citationWindow, 50)
    /\ ResultReflects(localQuantile)


-----------------------------------------------------------------------------
(* Accumulators and endpoints of the returned graph, checked under          *)
(* SpecBuild.                                                               *)

OutNodes == fnOut.networkData.nodes
OutEdges == fnOut.networkData.edges

\* C21: every returned node and edge has count >= 1 and count equal to the
\* length of its citation list; an edge's count is also the length of its
\* effect list and its weight the sum of that list; a node's count is also
\* count_theoretical + count_methodological + count_cross.  So avgRS and
\* avgBeta never divide by zero.
C21_AccumulatorsConsistent ==
    Built =>
        /\ \A i \in 1..Len(OutNodes) :
               /\ OutNodes[i].count >= 1
               /\ OutNodes[i].count = Len(OutNodes[i].citations)
               /\ OutNodes[i].count = OutNodes[i].count_theoretical
                                      + OutNodes[i].count_methodological
                                      + OutNodes[i].count_cross
        /\ \A i \in 1..Len(OutEdges) :
               /\ OutEdges[i].count >= 1
               /\ OutEdges[i].count = Len(OutEdges[i].citations)
               /\ OutEdges[i].count = Len(OutEdges[i].betas)
               /\ OutEdges[i].weight = SeqSum(OutEdges[i].betas)

\* A node fed under two categories and an edge fed by two contributions of
\* opposite sign.
C21_Witness ==
    /\ Built
    /\ \E i \in 1..Len(OutNodes) :
           /\ OutNodes[i].count_theoretical >= 1
           /\ OutNodes[i].count_cross >= 1
           /\ OutNodes[i].count >= 3
    /\ \E i \in 1..Len(OutEdges) :
           /\ OutEdges[i].count >= 2
           /\ \E k, l \in 1..Len(OutEdges[i].betas) :
                  OutEdges[i].betas[k] < 0 /\ OutEdges[i].betas[l] > 0

\* C22: the source and the target of every returned edge are ids of returned
\* nodes, and every node's category is theoretical or methodological, never
\* cross.
C22_EndpointClosure ==
    Built =>
        /\ \A i \in 1..Len(OutEdges) :
               /\ \E k \in 1..Len(OutNodes) : OutNodes[k].id = OutEdges[i].source
               /\ \E k \in 1..Len(OutNodes) : OutNodes[k].id = OutEdges[i].target
        /\ \A k \in 1..Len(OutNodes) :
               OutNodes[k].category \in {"theoretical", "methodological"}

\* Only cross is active: an edge of type cross whose two nodes were created by
\* the cross branch, one methodological and one theoretical.
C22_Witness ==
    /\ Built
    /\ InActive = {"cross"}
    /\ \E i \in 1..Len(OutEdges), k, l \in 1..Len(OutNodes) :
           /\ OutEdges[i].type = "cross"
           /\ OutNodes[k].id = OutEdges[i].source
           /\ OutNodes[l].id = OutEdges[i].target
           /\ OutNodes[k].category = "methodological"
           /\ OutNodes[l].category = "theoretical"
           /\ OutNodes[k].count_cross = OutNodes[k].count

=============================================================================
